---- MODULE Spec2Model ----
(***************************************************************************)
(* Model of the devtools backend: the dictionary service (add_word and     *)
(* get_word over a transactional store with a uniqueness constraint), the  *)
(* POST /dictionary/add route in front of it, and the shopping calculator. *)
(* Strings are sequences of one-character strings, so that str.strip and   *)
(* str.lower are computed and not assumed.  In the texts given to the       *)
(* parsers of the simple format an element is a punctuation character or   *)
(* an atom (a name, a number, a JSON literal) that holds no punctuation.    *)
(***************************************************************************)
EXTENDS Integers, Sequences, FiniteSets, TLC

\* ------------------------------------------------------------------ bounds
\* Number of calls (requests) that may be in flight or finished.
NumCalls == 2
\* Longest item list handed to the calculator.
MaxItems == 3
\* Largest amount, in units of 0.00001, of the range given to the rounding.
MaxAmount == 2100
\* Most candidate lines in a text given to the cost parser.
MaxLines == 2
\* Longest text given to the item parser.
MaxText == 4
\* Longest words list given to word-concat.
MaxWords == 3
\* Largest value of the setting DB_MAX_RETRIES.
MaxRetries == 5

Calls == 1..NumCalls

\* ----------------------------------------------------------------- strings
Whitespace == {" ", "\t", "\n"}

LowerChar(ch) ==
  CASE ch = "A" -> "a"
    [] ch = "B" -> "b"
    [] ch = "X" -> "x"
    [] OTHER -> ch

\* str.lower()
Lower(s) == [i \in 1..Len(s) |-> LowerChar(s[i])]

RECURSIVE LStrip(_)
LStrip(s) ==
  IF s = <<>> THEN s
  ELSE IF Head(s) \in Whitespace THEN LStrip(Tail(s)) ELSE s

RECURSIVE RStrip(_)
RStrip(s) ==
  IF s = <<>> THEN s
  ELSE IF s[Len(s)] \in Whitespace THEN RStrip(SubSeq(s, 1, Len(s) - 1)) ELSE s

\* str.strip()
Strip(s) == RStrip(LStrip(s))

\* `not s or not s.strip()`
IsBlank(s) == s = <<>> \/ Strip(s) = <<>>

\* Raw words and definitions the callers pass.
WordInputs == { <<>>, <<" ">>, <<"a">>, <<" ", "A", "\t">>, <<"b">> }
DefInputs  == { <<>>, <<"\t">>, <<" ", "X">>, <<"y", " ">> }

\* ------------------------------------------------------------------- state
VARIABLES
  entries,     \* committed rows of the dictionary table, in insertion order
  pending,     \* per call: the row its session has created but not committed
  pc,          \* per call: where the call stands
  op,          \* per call: "add" or "get" ("none" before the call starts)
  layer,       \* per call: "service" (direct call) or "http" (through the route)
  word,        \* per call: the word argument as given
  definition,  \* per call: the definition argument as given
  calls,       \* per call: the repository calls issued so far, in order
  result,      \* per call: how the call ended
  raised,      \* per call: the exception a repository call raised ("none" if none)
  request,     \* calculator: the request (costs, items, tax) being served
  cpc,         \* calculator: "idle", "loop" (in _calculate_subtotal) or "done"
  idx,         \* calculator: position of the loop in request.items
  subtotal,    \* calculator: the running, unrounded subtotal
  items_found,      \* calculator: items priced so far
  items_not_found,  \* calculator: items without a price so far
  response,    \* calculator: the ShoppingTotalResponse once built
  value,          \* rounding: the amount given to _round_to_decimal_places
  rounded,        \* rounding: what it returned for value
  rounded_again,  \* rounding: what it returned for rounded
  rpc,            \* rounding: "idle", "start", "once" or "twice"
  call_request,     \* shared calculator, per call: the request it was given
  call_pc,          \* shared calculator, per call: "idle", "loop" or "done"
  call_idx,         \* shared calculator, per call: position in request.items
  frame_subtotal,   \* shared calculator, per frame: the local subtotal
  frame_found,      \* shared calculator, per frame: the local items_found
  frame_not_found,  \* shared calculator, per frame: the local items_not_found
  call_response,    \* shared calculator, per call: the response it returned
  call_overlapped,  \* shared calculator, per call: it ran while another call did
  costs_input,   \* cost parser: the text given to _parse_costs
  cost_pc,       \* cost parser: "idle", "start", "lines" or "done"
  lines,         \* cost parser: the candidate lines not yet looked at
  costs_dict,    \* cost parser: the mapping built so far
  cost_result,   \* cost parser: the mapping returned or the error raised
  items_input,   \* item parser: the text given to _parse_items
  item_pc,       \* item parser: "idle", "start", "split" or "done"
  items,         \* item parser: the list built so far
  items_result,  \* item parser: "none", "ok" (items returned) or the error raised
  data,          \* POST /shopping/total: the JSON object of the body
  route_pc,      \* POST /shopping/total: where the handler stands
  format,        \* POST /shopping/total: the branch of the detection taken
  status_code,   \* POST /shopping/total: the status answered (0 before)
  endpoint,      \* the route posted to: "total" or "total-simple"
  words_given,   \* word-concat: the list v given to WordConcatRequest
  words,         \* word-concat: request.words after the validator
  word_pc,       \* word-concat: "idle", "request", "loop", "join", "done" or "rejected"
  index,         \* word-concat: the loop index of enumerate(words), from 0
  result_chars,  \* word-concat: the characters extracted so far
  skipped_count, \* word-concat: the words skipped so far
  word_response, \* word-concat: the WordConcatResponse returned
  max_retries,   \* startup: settings.DB_MAX_RETRIES
  db_script,     \* startup: what each call of init_db will do, in order
  start_pc,      \* startup: "idle", "try", "sleep", "returned" or "raised"
  attempt,       \* startup: the number of calls of init_db made
  start_trace    \* startup: the calls made, "init_db" and "sleep", in order

dictVars == <<entries, pending, pc, op, layer, word, definition, calls, result, raised>>

calcVars == <<request, cpc, idx, subtotal, items_found, items_not_found, response>>

roundVars == <<value, rounded, rounded_again, rpc>>

\* The variables of the other parts, which the dictionary and the calculator
\* leave alone.
sharedVars == <<call_request, call_pc, call_idx, frame_subtotal, frame_found,
                frame_not_found, call_response, call_overlapped>>

costVars == <<costs_input, cost_pc, lines, costs_dict, cost_result>>

itemVars == <<items_input, item_pc, items, items_result>>

routeVars == <<data, route_pc, format, status_code, endpoint>>

wordVars == <<words_given, words, word_pc, index, result_chars, skipped_count, word_response>>

startVars == <<max_retries, db_script, start_pc, attempt, start_trace>>

otherVars == <<roundVars, sharedVars, costVars, itemVars, routeVars, wordVars, startVars>>

vars == <<dictVars, calcVars, otherVars>>

NoEntry == [word |-> <<>>, definition |-> <<>>]
NoResult == [kind |-> "none", entry |-> NoEntry]

Raise(kind) == [kind |-> kind, entry |-> NoEntry]
Return(e) == [kind |-> "ok", entry |-> e]

NoRequest == [costs |-> <<>>, items |-> <<>>, tax |-> 0]
NoResponse == [subtotal |-> 0, tax_amount |-> 0, total |-> 0, items_found |-> <<>>,
               items_not_found |-> <<>>, items_count |-> 0]

InitDict ==
  /\ entries = <<>>
  /\ pending = [c \in Calls |-> NoEntry]
  /\ pc = [c \in Calls |-> "idle"]
  /\ op = [c \in Calls |-> "none"]
  /\ layer = [c \in Calls |-> "none"]
  /\ word = [c \in Calls |-> <<>>]
  /\ definition = [c \in Calls |-> <<>>]
  /\ calls = [c \in Calls |-> <<>>]
  /\ result = [c \in Calls |-> NoResult]
  /\ raised = [c \in Calls |-> "none"]

CalcIdle ==
  /\ request = NoRequest
  /\ cpc = "idle"
  /\ idx = 1
  /\ subtotal = 0
  /\ items_found = <<>>
  /\ items_not_found = <<>>
  /\ response = NoResponse

RoundIdle ==
  /\ value = 0
  /\ rounded = 0
  /\ rounded_again = 0
  /\ rpc = "idle"

SharedIdle ==
  /\ call_request = [c \in Calls |-> NoRequest]
  /\ call_pc = [c \in Calls |-> "idle"]
  /\ call_idx = [c \in Calls |-> 1]
  /\ frame_subtotal = [c \in Calls |-> 0]
  /\ frame_found = [c \in Calls |-> <<>>]
  /\ frame_not_found = [c \in Calls |-> <<>>]
  /\ call_response = [c \in Calls |-> NoResponse]
  /\ call_overlapped = [c \in Calls |-> FALSE]

EmptyDict == <<>>
NoParse == [kind |-> "none", key |-> <<>>, costs |-> EmptyDict]

CostIdle ==
  /\ costs_input = <<>>
  /\ cost_pc = "idle"
  /\ lines = <<>>
  /\ costs_dict = EmptyDict
  /\ cost_result = NoParse

ItemIdle ==
  /\ items_input = <<>>
  /\ item_pc = "idle"
  /\ items = <<>>
  /\ items_result = "none"

RouteIdle ==
  /\ data = EmptyDict
  /\ route_pc = "idle"
  /\ format = "none"
  /\ status_code = 0
  /\ endpoint = "none"

NoWordResponse == [result |-> <<>>, words |-> <<>>, characters_extracted |-> 0,
                   characters_skipped |-> 0]

WordIdle ==
  /\ words_given = <<>>
  /\ words = <<>>
  /\ word_pc = "idle"
  /\ index = 0
  /\ result_chars = <<>>
  /\ skipped_count = 0
  /\ word_response = NoWordResponse

StartIdle ==
  /\ max_retries = 0
  /\ db_script = <<>>
  /\ start_pc = "idle"
  /\ attempt = 0
  /\ start_trace = <<>>

OthersIdle ==
  RoundIdle /\ SharedIdle /\ CostIdle /\ ItemIdle /\ RouteIdle /\ WordIdle /\ StartIdle

Init == InitDict /\ CalcIdle /\ OthersIdle

\* ------------------------------------------------------ dictionary service
\* Mutant: the validation tests for the empty string only.
ValidateWordInput_EmptyOnly(w, d) == w = <<>> \/ d = <<>>

\* DictionaryService._validate_word_input: TRUE when it raises ValueError.
ValidateWordInput(w, d) == IsBlank(w) \/ IsBlank(d)

\* Mutant: the word is trimmed but not lowercased.
NormalizeWord_NoLower(w) == Strip(w)

\* add_word: normalized_word = word.strip().lower()
NormalizeWord(w) == Lower(Strip(w))

\* Mutant: the looked-up word is lowercased but not trimmed.
NormalizeLookup_NoStrip(w) == Lower(w)

\* get_word: normalized_word = word.strip().lower()
NormalizeLookup(w) == Lower(Strip(w))

\* normalized_definition = definition.strip()
NormalizeDefinition(d) == Strip(d)

\* The arguments the service receives: the route hands over the request's
\* fields, which the request schema has already trimmed.
SvcWord(c) == IF layer[c] = "http" THEN Strip(word[c]) ELSE word[c]
SvcDef(c) == IF layer[c] = "http" THEN Strip(definition[c]) ELSE definition[c]

\* ------------------------------------------------- repository and the store
\* Rows of `es` whose word matches w without regard to case.
Matching(es, w) == {i \in 1..Len(es) : Lower(es[i].word) = Lower(w)}

\* IDictionaryRepository.find_by_word: the matching row, or NoEntry (None).
FindByWord(es, w) ==
  IF Matching(es, w) = {} THEN NoEntry
  ELSE es[CHOOSE i \in Matching(es, w) : \A j \in Matching(es, w) : i <= j]

\* The store's uniqueness constraint on the word column, checked on a write.
UniqueViolation(es, w) == \E i \in 1..Len(es) : es[i].word = w

\* IDictionaryRepository.create: the exception it raises, or "ok".
CreateOutcome(es, w, d) ==
  IF Strip(w) = <<>> \/ Strip(d) = <<>> THEN "ValueError"
  ELSE IF UniqueViolation(es, Strip(w)) THEN "IntegrityError"
  ELSE "ok"

\* The row create() adds to the session.
CreatedRow(w, d) == [word |-> Strip(w), definition |-> Strip(d)]

\* IDictionaryRepository.commit: the exception it raises, or "ok".
CommitOutcome(es, row) ==
  IF UniqueViolation(es, row.word) THEN "IntegrityError" ELSE "ok"

\* Mutant: the except clause for IntegrityError is missing.
AddWordHandler_NoIntegrity(exc) ==
  CASE exc = "ValueError" -> [raise |-> "ValueError", rollback |-> TRUE]
    [] OTHER -> [raise |-> exc, rollback |-> FALSE]

\* Mutant: the first except clause catches every exception.
AddWordHandler_CatchAll(exc) == [raise |-> "AlreadyExists", rollback |-> TRUE]

\* The except clauses of add_word: what the caller sees for an exception
\* raised inside the try block, and whether rollback() is called first.
AddWordHandler(exc) ==
  CASE exc = "IntegrityError" -> [raise |-> "AlreadyExists", rollback |-> TRUE]
    [] exc = "ValueError" -> [raise |-> "ValueError", rollback |-> TRUE]
    [] OTHER -> [raise |-> exc, rollback |-> FALSE]

\* The call ends: its session is closed, which discards what it left pending.
Finish(c, res, issued) ==
  /\ pc' = [pc EXCEPT ![c] = "done"]
  /\ result' = [result EXCEPT ![c] = res]
  /\ calls' = [calls EXCEPT ![c] = issued]
  /\ pending' = [pending EXCEPT ![c] = NoEntry]

\* An exception raised by repository call `name` inside add_word's try block.
FailInTry(c, exc, name) ==
  LET h == AddWordHandler(exc)
      issued == IF h.rollback THEN calls[c] \o <<name, "rollback">>
                ELSE Append(calls[c], name)
  IN /\ Finish(c, Raise(h.raise), issued)
     /\ raised' = [raised EXCEPT ![c] = exc]

\* Calls are numbered in their order of arrival.
Arrives(c) == pc[c] = "idle" /\ \A b \in Calls : b < c => pc[b] # "idle"

\* add_word, lines 52-55: validation and normalisation.
AddCall(c, w, d) ==
  /\ Arrives(c)
  /\ op' = [op EXCEPT ![c] = "add"]
  /\ layer' = [layer EXCEPT ![c] = "service"]
  /\ word' = [word EXCEPT ![c] = w]
  /\ definition' = [definition EXCEPT ![c] = d]
  /\ IF ValidateWordInput(w, d)
     THEN Finish(c, Raise("ValueError"), calls[c])
     ELSE /\ pc' = [pc EXCEPT ![c] = "find"]
          /\ UNCHANGED <<result, calls, pending>>
  /\ UNCHANGED <<entries, raised, calcVars, otherVars>>

\* Mutant: the existence check looks up the word as given, not normalised.
AddFind_RawKey(c) ==
  /\ pc[c] = "find"
  /\ LET existing == FindByWord(entries, SvcWord(c))
     IN IF existing # NoEntry
        THEN Finish(c, Raise("AlreadyExists"), Append(calls[c], "find_by_word"))
        ELSE /\ pc' = [pc EXCEPT ![c] = "create"]
             /\ calls' = [calls EXCEPT ![c] = Append(calls[c], "find_by_word")]
             /\ UNCHANGED <<result, pending>>
  /\ UNCHANGED <<entries, op, layer, word, definition, raised, calcVars, otherVars>>

\* Mutant: an existing entry gets the new definition instead of an error.
AddFind_Upsert(c) ==
  /\ pc[c] = "find"
  /\ LET w == NormalizeWord(SvcWord(c))
         d == NormalizeDefinition(SvcDef(c))
         m == Matching(entries, w)
     IN IF m # {}
        THEN /\ entries' = [i \in 1..Len(entries) |->
                              IF i \in m THEN [word |-> entries[i].word, definition |-> d]
                              ELSE entries[i]]
             /\ Finish(c, Return([word |-> w, definition |-> d]),
                       Append(calls[c], "find_by_word"))
        ELSE /\ pc' = [pc EXCEPT ![c] = "create"]
             /\ calls' = [calls EXCEPT ![c] = Append(calls[c], "find_by_word")]
             /\ UNCHANGED <<result, pending, entries>>
  /\ UNCHANGED <<op, layer, word, definition, raised, calcVars, otherVars>>

\* add_word, lines 57-64: the existence check.
AddFind(c) ==
  /\ pc[c] = "find"
  /\ LET existing == FindByWord(entries, NormalizeWord(SvcWord(c)))
     IN IF existing # NoEntry
        THEN Finish(c, Raise("AlreadyExists"), Append(calls[c], "find_by_word"))
        ELSE /\ pc' = [pc EXCEPT ![c] = "create"]
             /\ calls' = [calls EXCEPT ![c] = Append(calls[c], "find_by_word")]
             /\ UNCHANGED <<result, pending>>
  /\ UNCHANGED <<entries, op, layer, word, definition, raised, calcVars, otherVars>>

\* add_word, line 68: repository.create inside the try block. The store may
\* also fail with a fault that is no constraint violation.
AddCreate(c) ==
  /\ pc[c] = "create"
  /\ \E fault \in BOOLEAN :
       LET w == NormalizeWord(SvcWord(c))
           d == NormalizeDefinition(SvcDef(c))
           outcome == IF fault THEN "OperationalError"
                      ELSE CreateOutcome(entries, w, d)
       IN IF outcome = "ok"
          THEN /\ pending' = [pending EXCEPT ![c] = CreatedRow(w, d)]
               /\ pc' = [pc EXCEPT ![c] = "commit"]
               /\ calls' = [calls EXCEPT ![c] = Append(calls[c], "create")]
               /\ UNCHANGED <<result, raised>>
          ELSE FailInTry(c, outcome, "create")
  /\ UNCHANGED <<entries, op, layer, word, definition, calcVars, otherVars>>

\* add_word, lines 69-74: repository.commit and the return of the entry.
AddCommit(c) ==
  /\ pc[c] = "commit"
  /\ \E fault \in BOOLEAN :
       LET outcome == IF fault THEN "OperationalError"
                      ELSE CommitOutcome(entries, pending[c])
       IN IF outcome = "ok"
          THEN /\ entries' = Append(entries, pending[c])
               /\ Finish(c, Return(pending[c]), Append(calls[c], "commit"))
               /\ UNCHANGED raised
          ELSE /\ FailInTry(c, outcome, "commit")
               /\ UNCHANGED entries
  /\ UNCHANGED <<op, layer, word, definition, calcVars, otherVars>>

\* get_word, lines 103-106: validation and normalisation.
GetCall(c, w) ==
  /\ Arrives(c)
  /\ op' = [op EXCEPT ![c] = "get"]
  /\ layer' = [layer EXCEPT ![c] = "service"]
  /\ word' = [word EXCEPT ![c] = w]
  /\ IF IsBlank(w)
     THEN Finish(c, Raise("ValueError"), calls[c])
     ELSE /\ pc' = [pc EXCEPT ![c] = "get_find"]
          /\ UNCHANGED <<result, calls, pending>>
  /\ UNCHANGED <<entries, definition, raised, calcVars, otherVars>>

\* get_word, lines 107-116: the lookup and its answer.
GetFind(c) ==
  /\ pc[c] = "get_find"
  /\ LET entry == FindByWord(entries, NormalizeLookup(word[c]))
     IN IF entry = NoEntry
        THEN Finish(c, Raise("NotFound"), Append(calls[c], "find_by_word"))
        ELSE Finish(c, Return(entry), Append(calls[c], "find_by_word"))
  /\ UNCHANGED <<entries, op, layer, word, definition, raised, calcVars, otherVars>>

\* ------------------------------------------------------ POST /dictionary/add
WordMaxLength == 100
DefinitionMaxLength == 1000

\* WordAddRequest: TRUE when the body fails the schema (length limits on the
\* raw fields, then the validators that trim and reject an empty remainder).
SchemaRejects(w, d) ==
  \/ Len(w) < 1 \/ Len(w) > WordMaxLength
  \/ Len(d) < 1 \/ Len(d) > DefinitionMaxLength
  \/ Strip(w) = <<>>
  \/ Strip(d) = <<>>

\* The status the framework answers with when the body fails its schema: the
\* application installs no handler of its own for request validation errors.
RequestValidationStatus == 422

\* The status of the response to POST /dictionary/add.
HttpStatus(res) ==
  CASE res.kind = "ok" -> 201
    [] res.kind = "AlreadyExists" -> 409
    [] res.kind = "ValueError" -> 400
    [] res.kind = "RequestValidationError" -> RequestValidationStatus
    [] OTHER -> 500

\* The route add_word: the body is validated against WordAddRequest before
\* the handler runs; the handler then calls service.add_word.
PostAdd(c, w, d) ==
  /\ Arrives(c)
  /\ op' = [op EXCEPT ![c] = "add"]
  /\ layer' = [layer EXCEPT ![c] = "http"]
  /\ word' = [word EXCEPT ![c] = w]
  /\ definition' = [definition EXCEPT ![c] = d]
  /\ IF SchemaRejects(w, d)
     THEN Finish(c, Raise("RequestValidationError"), calls[c])
     ELSE IF ValidateWordInput(Strip(w), Strip(d))
     THEN Finish(c, Raise("ValueError"), calls[c])
     ELSE /\ pc' = [pc EXCEPT ![c] = "find"]
          /\ UNCHANGED <<result, calls, pending>>
  /\ UNCHANGED <<entries, raised, calcVars, otherVars>>

NextHttp ==
  \E c \in Calls :
    \/ \E w \in WordInputs, d \in DefInputs : PostAdd(c, w, d)
    \/ AddFind(c)
    \/ AddCreate(c)
    \/ AddCommit(c)

SpecHttp == Init /\ [][NextHttp]_vars

\* ------------------------------------------------------ shopping calculator
\* Amounts are exact decimals, held as integers in units of 0.00001 (1.50 is
\* 150000); a tax rate is held in hundredths (0.1 is 10).
Prices == {0, 75000, 150000, 1055500}
TaxRates == {0, 10, 100}
CostNames == { <<"a">>, <<"b">> }
ItemInputs == { <<>>, <<" ">>, <<"a">>, <<" ", "a", "\t">>, <<"A">>, <<"b">> }

CostTables == UNION {[K -> Prices] : K \in SUBSET CostNames}
ItemLists == UNION {[1..n -> ItemInputs] : n \in 0..MaxItems}

\* Mutant: rounding=ROUND_HALF_EVEN.
RoundToDecimalPlaces_HalfEven(value_) ==
  LET q == value_ \div 1000
      r == value_ % 1000
  IN IF r > 500 \/ (r = 500 /\ q % 2 = 1) THEN (q + 1) * 1000 ELSE q * 1000

\* Mutant: ROUNDING_PRECISION of one decimal place.
RoundToDecimalPlaces_OnePlace(value_) == ((value_ + 5000) \div 10000) * 10000

\* _round_to_decimal_places: to two decimal places, half up.
RoundToDecimalPlaces(value_) == ((value_ + 500) \div 1000) * 1000

\* costs.get(name): TRUE when it returns a price and not None.
HasCost(costs, name) == name \in DOMAIN costs

\* Mutant: `if item_cost`, which a price of 0 fails.
IsPriced_Truthy(costs, name) == HasCost(costs, name) /\ costs[name] # 0

\* `if item_cost is not None`
IsPriced(costs, name) == HasCost(costs, name)

\* Mutant: `subtotal = item_cost`.
AddCost_Assign(sub, item_cost) == item_cost

\* subtotal += item_cost
AddCost(sub, item_cost) == sub + item_cost

\* _calculate_tax_and_total
TaxAmount(sub, tax_rate) == (sub * tax_rate) \div 100

\* Mutant: the total as the sum of the rounded subtotal and the rounded tax.
Total_OfRounded(sub, tax_rate) ==
  RoundToDecimalPlaces(sub) + RoundToDecimalPlaces(TaxAmount(sub, tax_rate))

Total(sub, tax_rate) == sub + TaxAmount(sub, tax_rate)

InitCalc ==
  /\ InitDict
  /\ OthersIdle
  /\ request \in [costs : CostTables, items : ItemLists, tax : TaxRates]
  /\ cpc = "loop"
  /\ idx = 1
  /\ subtotal = 0
  /\ items_found = <<>>
  /\ items_not_found = <<>>
  /\ response = NoResponse

\* One pass of the loop of _calculate_subtotal over request.items.
SubtotalStep ==
  /\ cpc = "loop"
  /\ idx <= Len(request.items)
  /\ LET item == request.items[idx]
         item_stripped == IF item # <<>> THEN Strip(item) ELSE <<>>
     IN IF item_stripped = <<>>
        THEN UNCHANGED <<subtotal, items_found, items_not_found>>
        ELSE IF IsPriced(request.costs, item_stripped)
        THEN /\ subtotal' = AddCost(subtotal, request.costs[item_stripped])
             /\ items_found' = Append(items_found, item_stripped)
             /\ UNCHANGED items_not_found
        ELSE /\ items_not_found' = Append(items_not_found, item_stripped)
             /\ UNCHANGED <<subtotal, items_found>>
  /\ idx' = idx + 1
  /\ UNCHANGED <<request, cpc, response, dictVars, otherVars>>

\* calculate_total after the loop: tax, total, rounding and the response.
BuildResponse ==
  /\ cpc = "loop"
  /\ idx > Len(request.items)
  /\ response' = [subtotal |-> RoundToDecimalPlaces(subtotal),
                  tax_amount |-> RoundToDecimalPlaces(TaxAmount(subtotal, request.tax)),
                  total |-> RoundToDecimalPlaces(Total(subtotal, request.tax)),
                  items_found |-> items_found,
                  items_not_found |-> items_not_found,
                  items_count |-> Len(items_found) + Len(items_not_found)]
  /\ cpc' = "done"
  /\ UNCHANGED <<request, idx, subtotal, items_found, items_not_found, dictVars, otherVars>>

NextCalc == SubtotalStep \/ BuildResponse

SpecCalc == InitCalc /\ [][NextCalc]_vars

\* ------------------------------------------------------ texts and parsing
\* The position of the first element of s that is in D (0 when there is none).
RECURSIVE FirstIn(_, _, _)
FirstIn(s, D, i) ==
  IF i > Len(s) THEN 0
  ELSE IF s[i] \in D THEN i ELSE FirstIn(s, D, i + 1)

Contains(s, D) == FirstIn(s, D, 1) # 0

\* re.split / str.split(sep): the pieces of s between the elements in D.
RECURSIVE SplitOn(_, _)
SplitOn(s, D) ==
  LET i == FirstIn(s, D, 1)
  IN IF i = 0 THEN <<s>>
     ELSE <<SubSeq(s, 1, i - 1)>> \o SplitOn(SubSeq(s, i + 1, Len(s)), D)

\* The two floats that are not finite, float('inf') and float('nan'), stand
\* above every finite amount: like them they are not below 0.
Infinity == 2000000000
NaN == 2000000001

\* float(): the atoms float() accepts, with their values in units of 0.00001.
\* json.loads reads the same atoms as numbers.
NumberAtoms == {"0", "0.75", "1.5", "-1", "Infinity", "NaN"}
NumberValue(atom) ==
  CASE atom = "0" -> 0
    [] atom = "0.75" -> 75000
    [] atom = "1.5" -> 150000
    [] atom = "-1" -> -100000
    [] atom = "Infinity" -> Infinity
    [] atom = "NaN" -> NaN

\* float(price_str): a text is a number when it is one number atom.
IsFloat(s) == Len(s) = 1 /\ s[1] \in NumberAtoms
FloatOf(s) == NumberValue(s[1])

\* json.loads: the atoms that are JSON strings, and the string each denotes.
JsonStrings == {"\"a\"", "\"b\"", "\"x\""}
Unquote(atom) ==
  CASE atom = "\"a\"" -> <<"a">>
    [] atom = "\"b\"" -> <<"b">>
    [] atom = "\"x\"" -> <<"x">>

NoJson == [ok |-> FALSE, val |-> [kind |-> "none", num |-> 0], pairs |-> <<>>, rest |-> <<>>]
JsonOk(v, ps, r) == [ok |-> TRUE, val |-> v, pairs |-> ps, rest |-> r]

\* json.loads on a text without whitespace: a value at the head of ts.  An
\* object is returned with its members as pairs, in the order written.
RECURSIVE JsonValue(_)
RECURSIVE JsonMembers(_, _)
JsonValue(ts) ==
  IF ts = <<>> THEN NoJson
  ELSE LET h == Head(ts)
           r == Tail(ts)
       IN CASE h \in NumberAtoms -> JsonOk([kind |-> "number", num |-> NumberValue(h)], <<>>, r)
            [] h = "true" -> JsonOk([kind |-> "bool", num |-> 100000], <<>>, r)
            [] h = "false" -> JsonOk([kind |-> "bool", num |-> 0], <<>>, r)
            [] h = "null" -> JsonOk([kind |-> "null", num |-> 0], <<>>, r)
            [] h = "[1]" -> JsonOk([kind |-> "list", num |-> 0], <<>>, r)
            [] h \in JsonStrings -> JsonOk([kind |-> "string", num |-> 0], <<>>, r)
            [] h = "{" ->
                 IF r # <<>> /\ Head(r) = "}"
                 THEN JsonOk([kind |-> "object", num |-> 0], <<>>, Tail(r))
                 ELSE JsonMembers(r, <<>>)
            [] OTHER -> NoJson

\* The members of an object after its brace or after a comma.
JsonMembers(ts, acc) ==
  IF Len(ts) < 3 \/ ts[1] \notin JsonStrings \/ ts[2] # ":" THEN NoJson
  ELSE LET v == JsonValue(SubSeq(ts, 3, Len(ts)))
           ps == Append(acc, [key |-> Unquote(ts[1]), val |-> v.val])
       IN IF ~v.ok \/ v.rest = <<>> THEN NoJson
          ELSE IF Head(v.rest) = "}"
          THEN JsonOk([kind |-> "object", num |-> 0], ps, Tail(v.rest))
          ELSE IF Head(v.rest) = ","
          THEN JsonMembers(Tail(v.rest), ps)
          ELSE NoJson

\* json.loads(text): whitespace between the elements is skipped, and nothing
\* may follow the value.
JsonLoads(text) ==
  LET j == JsonValue(SelectSeq(text, LAMBDA ch : ch \notin Whitespace))
  IN IF j.ok /\ j.rest = <<>> THEN j ELSE NoJson

\* -------------------------------------------------------------- _parse_costs
\* Candidate lines of the texts given to the parser: key:value lines (with
\* and without spaces, a negative price, a price that is no number, no
\* colon, a colon first, no price, a price that is not finite) and members of
\* a JSON object (a number, a boolean, a negative number, a string, null, a
\* list, an object, a number that is not finite).
CostLines ==
  { <<>>,
    <<"a", ":", "1.5">>,
    <<" ", "a", " ", ":", " ", "0.75", " ">>,
    <<"b", ":", "-1">>,
    <<"b", ":", "x">>,
    <<"a">>,
    <<":", "a", ":", "1.5">>,
    <<"a", ":">>,
    <<"\"a\"", ":", "1.5">>,
    <<"\"b\"", ":", "true">>,
    <<"\"b\"", ":", "-1">>,
    <<"\"a\"", ":", "\"x\"">>,
    <<"\"b\"", ":", "null">>,
    <<"\"b\"", ":", "[1]">>,
    <<"\"b\"", ":", "{", "}">>,
    <<"a", ":", "Infinity">>,
    <<"b", ":", "NaN">>,
    <<"\"a\"", ":", "Infinity">>,
    <<"\"b\"", ":", "NaN">> }

\* The characters re.split(r'[,;\n]', ...) splits on.
LineSeps == {",", ";", "\n"}

\* Texts of n lines, joined by any of the separators.
RECURSIVE JoinedLines(_)
JoinedLines(n) ==
  IF n = 1 THEN CostLines
  ELSE {t \o <<sep>> \o l : t \in JoinedLines(n - 1), sep \in LineSeps, l \in CostLines}

\* The texts of at most `most` lines given to the parser: lines as they are,
\* after an opening brace, and between braces.
CostTexts(most) ==
  LET bodies == UNION {JoinedLines(n) : n \in 1..most}
  IN bodies \cup {<<"{">> \o t : t \in bodies}
            \cup {<<"{">> \o t \o <<"}">> : t \in bodies}

ParseError(msg, k) == [kind |-> msg, key |-> k, costs |-> EmptyDict]
Parsed(d) == [kind |-> "ok", key |-> <<>>, costs |-> d]

\* costs_dict[item] = price
SetCost(d, k, v) == (k :> v) @@ d

\* The dict json.loads builds from the members of an object: a key written
\* twice keeps its first place and its last value.
RECURSIVE DictOfPairs(_)
DictOfPairs(ps) ==
  IF ps = <<>> THEN EmptyDict
  ELSE SetCost(DictOfPairs(SubSeq(ps, 1, Len(ps) - 1)), ps[Len(ps)].key, ps[Len(ps)].val)

RECURSIVE KeyOrder(_)
KeyOrder(ps) ==
  IF ps = <<>> THEN <<>>
  ELSE LET front == KeyOrder(SubSeq(ps, 1, Len(ps) - 1))
           k == ps[Len(ps)].key
       IN IF \E i \in 1..Len(front) : front[i] = k THEN front ELSE Append(front, k)

\* isinstance(value, (int, float)); a Python bool is an int.
IsNumberInstance(v) == v.kind \in {"number", "bool"}

\* The loop over costs_dict.items() of the JSON branch, from key i on.
RECURSIVE ValidateJsonCosts(_, _, _)
ValidateJsonCosts(keys, d, i) ==
  IF i > Len(keys) THEN Parsed([k \in DOMAIN d |-> d[k].num])
  ELSE LET v == d[keys[i]]
       IN IF ~IsNumberInstance(v) THEN ParseError("must be a number", keys[i])
          ELSE IF v.num < 0 THEN ParseError("cannot be negative", keys[i])
          ELSE ValidateJsonCosts(keys, d, i + 1)

\* re.match(r'^(.+?)[:]\s*(.+)$', line) on a trimmed line: the colon taken is
\* the first one that has a character before it and a character after it.
ColonAt(line) ==
  IF \E p \in 2..(Len(line) - 1) : line[p] = ":"
  THEN CHOOSE p \in 2..(Len(line) - 1) :
         line[p] = ":" /\ \A q \in 2..(p - 1) : line[q] # ":"
  ELSE 0

InitCosts ==
  /\ InitDict
  /\ CalcIdle
  /\ WordIdle
  /\ StartIdle
  /\ RoundIdle
  /\ SharedIdle
  /\ ItemIdle
  /\ RouteIdle
  /\ costs_input \in CostTexts(MaxLines)
  /\ cost_pc = "start"
  /\ lines = <<>>
  /\ costs_dict = EmptyDict
  /\ cost_result = NoParse

\* _parse_costs up to the loop over the lines: the empty check and the JSON
\* attempt.
ParseCostsStart ==
  /\ cost_pc = "start"
  /\ LET stripped == Strip(costs_input)
         j == JsonLoads(stripped)
     IN IF stripped = <<>>
        THEN /\ cost_result' = ParseError("cannot be empty", <<>>)
             /\ cost_pc' = "done"
             /\ UNCHANGED <<lines, costs_dict>>
        ELSE IF Head(stripped) = "{" /\ j.ok
        THEN /\ costs_dict' = DictOfPairs(j.pairs)
             /\ cost_result' = ValidateJsonCosts(KeyOrder(j.pairs), DictOfPairs(j.pairs), 1)
             /\ cost_pc' = "done"
             /\ UNCHANGED lines
        ELSE /\ lines' = SplitOn(stripped, LineSeps)
             /\ cost_pc' = "lines"
             /\ UNCHANGED <<costs_dict, cost_result>>
  /\ UNCHANGED <<costs_input, dictVars, wordVars, startVars, calcVars, routeVars, roundVars, sharedVars, itemVars>>

\* One pass of the loop over the candidate lines.
ParseCostsLine ==
  /\ cost_pc = "lines"
  /\ lines # <<>>
  /\ LET line == Strip(Head(lines))
         p == ColonAt(line)
         item == Strip(SubSeq(line, 1, p - 1))
         price_str == Strip(SubSeq(line, p + 1, Len(line)))
     IN IF line = <<>> \/ p = 0 \/ item = <<>>
        THEN /\ lines' = Tail(lines)
             /\ UNCHANGED <<cost_pc, costs_dict, cost_result>>
        ELSE IF ~IsFloat(price_str)
        THEN /\ cost_result' = ParseError("invalid price format", item)
             /\ cost_pc' = "done"
             /\ UNCHANGED <<lines, costs_dict>>
        ELSE IF FloatOf(price_str) < 0
        THEN /\ cost_result' = ParseError("cannot be negative", item)
             /\ cost_pc' = "done"
             /\ UNCHANGED <<lines, costs_dict>>
        ELSE /\ costs_dict' = SetCost(costs_dict, item, FloatOf(price_str))
             /\ lines' = Tail(lines)
             /\ UNCHANGED <<cost_pc, cost_result>>
  /\ UNCHANGED <<costs_input, dictVars, wordVars, startVars, calcVars, routeVars, roundVars, sharedVars, itemVars>>

\* After the loop: an empty mapping is an error.
ParseCostsEnd ==
  /\ cost_pc = "lines"
  /\ lines = <<>>
  /\ cost_result' = IF DOMAIN costs_dict = {}
                     THEN ParseError("could not parse", <<>>)
                     ELSE Parsed(costs_dict)
  /\ cost_pc' = "done"
  /\ UNCHANGED <<costs_input, lines, costs_dict, dictVars, wordVars, startVars, calcVars, routeVars, roundVars, sharedVars, itemVars>>

NextCosts == ParseCostsStart \/ ParseCostsLine \/ ParseCostsEnd

SpecCosts == InitCosts /\ [][NextCosts]_vars

\* -------------------------------------------------------------- _parse_items
\* The texts given to the parser: names, commas, newlines, spaces and tabs.
ItemChars == {"a", "b", ",", "\n", " ", "\t"}
ItemTexts == UNION {[1..n -> ItemChars] : n \in 0..MaxText}

NonEmpty(seq) == SelectSeq(seq, LAMBDA x : x # <<>>)

\* str.split(): the pieces between runs of whitespace.
SplitWhitespace(s) == NonEmpty(SplitOn(s, Whitespace))

StripEach_Untrimmed(pieces) == NonEmpty(pieces)

\* [item.strip() for item in pieces if item.strip()]
StripEach(pieces) == NonEmpty([i \in 1..Len(pieces) |-> Strip(pieces[i])])

InitItems ==
  /\ InitDict
  /\ CalcIdle
  /\ WordIdle
  /\ StartIdle
  /\ RoundIdle
  /\ SharedIdle
  /\ CostIdle
  /\ RouteIdle
  /\ items_input \in ItemTexts
  /\ item_pc = "start"
  /\ items = <<>>
  /\ items_result = "none"

\* _parse_items up to the list of items: the empty check and the choice of
\* the delimiter.
ParseItemsSplit ==
  /\ item_pc = "start"
  /\ LET stripped == Strip(items_input)
     IN IF stripped = <<>>
        THEN /\ items_result' = "cannot be empty"
             /\ item_pc' = "done"
             /\ UNCHANGED items
        ELSE /\ items' =
                  IF Contains(stripped, {","})
                  THEN StripEach(SplitOn(stripped, {","}))
                  ELSE IF Contains(stripped, {"\n"})
                  THEN StripEach(SplitOn(stripped, {"\n"}))
                  ELSE IF Contains(stripped, {" "}) /\ Len(SplitWhitespace(stripped)) > 1
                  THEN StripEach(SplitWhitespace(stripped))
                  ELSE IF Strip(stripped) # <<>> THEN <<Strip(stripped)>> ELSE <<>>
             /\ item_pc' = "split"
             /\ UNCHANGED items_result
  /\ UNCHANGED <<items_input, dictVars, wordVars, startVars, calcVars, routeVars, roundVars, sharedVars, costVars>>

\* The end of _parse_items: empty items are dropped, and an empty list is an
\* error.
ParseItemsEnd ==
  /\ item_pc = "split"
  /\ items' = NonEmpty(items)
  /\ items_result' = IF NonEmpty(items) = <<>> THEN "at least one item" ELSE "ok"
  /\ item_pc' = "done"
  /\ UNCHANGED <<items_input, dictVars, wordVars, startVars, calcVars, routeVars, roundVars, sharedVars, costVars>>

NextItems == ParseItemsSplit \/ ParseItemsEnd

SpecItems == InitItems /\ [][NextItems]_vars

\* ----------------------------------------------------------------- rounding
\* Amounts given to _round_to_decimal_places: every amount up to MaxAmount
\* and the amounts 10.554, 10.555 and 999.999.
RoundInputs == (0..MaxAmount) \cup {1055400, 1055500, 99999900}

InitRound ==
  /\ InitDict
  /\ CalcIdle
  /\ WordIdle
  /\ StartIdle
  /\ SharedIdle
  /\ CostIdle
  /\ ItemIdle
  /\ RouteIdle
  /\ value \in RoundInputs
  /\ rounded = 0
  /\ rounded_again = 0
  /\ rpc = "start"

\* _round_to_decimal_places(value)
Round ==
  /\ rpc = "start"
  /\ rounded' = RoundToDecimalPlaces(value)
  /\ rpc' = "once"
  /\ UNCHANGED <<value, rounded_again, dictVars, wordVars, startVars, calcVars, sharedVars, costVars, itemVars, routeVars>>

\* _round_to_decimal_places applied to its own result.
RoundAgain ==
  /\ rpc = "once"
  /\ rounded_again' = RoundToDecimalPlaces(rounded)
  /\ rpc' = "twice"
  /\ UNCHANGED <<value, rounded, dictVars, wordVars, startVars, calcVars, sharedVars, costVars, itemVars, routeVars>>

NextRound == Round \/ RoundAgain

SpecRound == InitRound /\ [][NextRound]_vars

\* ------------------------------------------- the shared calculator instance
\* calculator_service is one object serving every request; calls of its
\* calculate_total may interleave at every step of the loop.
SharedRequests ==
  { [costs |-> (<<"a">> :> 150000) @@ (<<"b">> :> 75000),
     items |-> << <<"a">>, <<"b">> >>, tax |-> 10],
    [costs |-> (<<"a">> :> 1055500),
     items |-> << <<"a">>, <<"b">> >>, tax |-> 10],
    [costs |-> (<<"a">> :> 75000),
     items |-> << <<" ", "a", "\t">>, <<"a">> >>, tax |-> 100],
    [costs |-> (<<"b">> :> 0),
     items |-> << <<"b">> >>, tax |-> 0] }

\* Mutant: the accumulators kept on the instance (self.subtotal, ...).
Frame_OnInstance(c) == 1

\* The frame holding the locals of call c of _calculate_subtotal: its own.
Frame(c) == c

InFlight(c) == call_pc[c] = "loop"

\* Call c ran a step while another call was in its loop.
Overlap(c) ==
  [call_overlapped EXCEPT ![c] = @ \/ \E o \in Calls \ {c} : InFlight(o)]

\* calculate_total(request) entered: the locals of _calculate_subtotal are
\* initialised.
CalcCall(c, req) ==
  /\ call_pc[c] = "idle"
  /\ call_request' = [call_request EXCEPT ![c] = req]
  /\ call_pc' = [call_pc EXCEPT ![c] = "loop"]
  /\ call_idx' = [call_idx EXCEPT ![c] = 1]
  /\ frame_subtotal' = [frame_subtotal EXCEPT ![Frame(c)] = 0]
  /\ frame_found' = [frame_found EXCEPT ![Frame(c)] = <<>>]
  /\ frame_not_found' = [frame_not_found EXCEPT ![Frame(c)] = <<>>]
  /\ call_overlapped' = Overlap(c)
  /\ UNCHANGED <<call_response, dictVars, wordVars, startVars, calcVars, roundVars, costVars, itemVars, routeVars>>

\* One pass of the loop of _calculate_subtotal in call c.
CalcStep(c) ==
  /\ call_pc[c] = "loop"
  /\ call_idx[c] <= Len(call_request[c].items)
  /\ LET item == call_request[c].items[call_idx[c]]
         item_stripped == IF item # <<>> THEN Strip(item) ELSE <<>>
         costs == call_request[c].costs
         f == Frame(c)
     IN IF item_stripped = <<>>
        THEN UNCHANGED <<frame_subtotal, frame_found, frame_not_found>>
        ELSE IF IsPriced(costs, item_stripped)
        THEN /\ frame_subtotal' =
                  [frame_subtotal EXCEPT ![f] = AddCost(@, costs[item_stripped])]
             /\ frame_found' = [frame_found EXCEPT ![f] = Append(@, item_stripped)]
             /\ UNCHANGED frame_not_found
        ELSE /\ frame_not_found' =
                  [frame_not_found EXCEPT ![f] = Append(@, item_stripped)]
             /\ UNCHANGED <<frame_subtotal, frame_found>>
  /\ call_idx' = [call_idx EXCEPT ![c] = @ + 1]
  /\ call_overlapped' = Overlap(c)
  /\ UNCHANGED <<call_request, call_pc, call_response, dictVars, wordVars, startVars, calcVars, roundVars, costVars, itemVars, routeVars>>

\* calculate_total after the loop, in call c.
CalcReturn(c) ==
  /\ call_pc[c] = "loop"
  /\ call_idx[c] > Len(call_request[c].items)
  /\ LET f == Frame(c)
         sub == frame_subtotal[f]
         tax_rate == call_request[c].tax
     IN call_response' = [call_response EXCEPT ![c] =
          [subtotal |-> RoundToDecimalPlaces(sub),
           tax_amount |-> RoundToDecimalPlaces(TaxAmount(sub, tax_rate)),
           total |-> RoundToDecimalPlaces(Total(sub, tax_rate)),
           items_found |-> frame_found[f],
           items_not_found |-> frame_not_found[f],
           items_count |-> Len(frame_found[f]) + Len(frame_not_found[f])]]
  /\ call_pc' = [call_pc EXCEPT ![c] = "done"]
  /\ call_overlapped' = Overlap(c)
  /\ UNCHANGED <<call_request, call_idx, frame_subtotal, frame_found,
                 frame_not_found, dictVars, wordVars, startVars, calcVars, roundVars, costVars, itemVars, routeVars>>

InitShared ==
  InitDict /\ CalcIdle /\ RoundIdle /\ SharedIdle /\ CostIdle /\ ItemIdle /\ RouteIdle
  /\ WordIdle /\ StartIdle

NextShared ==
  \E c \in Calls :
    \/ \E req \in SharedRequests : CalcCall(c, req)
    \/ CalcStep(c)
    \/ CalcReturn(c)

SpecShared == InitShared /\ [][NextShared]_vars

\* ------------------------------------------------------ POST /shopping/total
\* The JSON objects posted: each key is absent or carries one of a few values.
Field(k, values) == {EmptyDict} \cup {k :> v : v \in values}

Bodies ==
  { c @@ i @@ t @@ ci @@ ii :
      c \in Field("costs", { (<<"a">> :> 150000), (<<"a">> :> 0),
                             (<<"a">> :> -100000), EmptyDict }),
      i \in Field("items", { << <<"a">> >>, << <<" ">>, <<" ", "a">> >>, << <<" ">> >>, <<>> }),
      t \in Field("tax", {-10, 0, 10, 100, 150}),
      ci \in Field("costs_input", { <<"a", ":", "1.5", ",", "b", ":", "0.75">>, <<"{", "}">>, <<"a">> }),
      ii \in Field("items_input", { <<"a", " ", "b">>, <<" ">> }) }

Has(d, k) == k \in DOMAIN d

\* Mutant: `"costs_input" in data and "items_input" in data`.
IsSimpleFormat_Both(d) == Has(d, "costs_input") /\ Has(d, "items_input")

\* `"costs_input" in data or "items_input" in data`
IsSimpleFormat(d) == Has(d, "costs_input") \/ Has(d, "items_input")

\* Mutant: tax with gt=0, lt=1.
TaxInRange_Exclusive(t) == 0 < t /\ t < 100

\* tax: ge=0, le=1
TaxInRange(t) == 0 <= t /\ t <= 100

\* ShoppingTotalRequest(costs=c, items=i, tax=t) validates: a cost table with
\* an entry and no negative cost, an item that is not blank, a tax in range.
ValidStandard(c, i, t) ==
  /\ DOMAIN c # {}
  /\ \A k \in DOMAIN c : c[k] >= 0
  /\ i # <<>>
  /\ StripEach(i) # <<>>
  /\ TaxInRange(t)

\* The request validate_items_not_empty leaves: items trimmed, blanks dropped.
StandardRequest(c, i, t) == [costs |-> c, items |-> StripEach(i), tax |-> t]

InitRoute ==
  /\ InitDict
  /\ CalcIdle
  /\ WordIdle
  /\ StartIdle
  /\ RoundIdle
  /\ SharedIdle
  /\ CostIdle
  /\ ItemIdle
  /\ data \in Bodies
  /\ route_pc = "start"
  /\ format = "none"
  /\ status_code = 0
  /\ endpoint = "total"

\* `except ValueError`: HTTPException with status 400.
RouteFails ==
  /\ status_code' = 400
  /\ route_pc' = "done"

\* The body model of /shopping/total-simple did not validate: the framework
\* answers before the handler runs.
BodyRejected ==
  /\ status_code' = RequestValidationStatus
  /\ route_pc' = "done"

\* ShoppingTotalSimpleRequest(...) raised: inside _detect_and_parse_request
\* on /shopping/total, in the validation of the body on /shopping/total-simple.
SimpleModelFails == IF endpoint = "total-simple" THEN BodyRejected ELSE RouteFails

\* calculator_service.calculate_total(standard_request) entered.
RouteCalculates(req) ==
  /\ request' = req
  /\ cpc' = "loop"
  /\ route_pc' = "calculate"
  /\ UNCHANGED <<status_code, idx, subtotal, items_found, items_not_found, response>>

\* _detect_and_parse_request: the branch taken and the validation of the
\* fields of the body; in the simple format _parse_costs is entered.
RouteDetect ==
  /\ route_pc = "start"
  /\ endpoint = "total"
  /\ IF IsSimpleFormat(data)
     THEN /\ format' = "simple"
          /\ IF Has(data, "costs_input") /\ Has(data, "items_input")
                /\ Has(data, "tax") /\ TaxInRange(data["tax"])
             THEN /\ costs_input' = data["costs_input"]
                  /\ cost_pc' = "start"
                  /\ route_pc' = "parse_costs"
                  /\ UNCHANGED <<status_code, calcVars>>
             ELSE /\ RouteFails
                  /\ UNCHANGED <<costs_input, cost_pc, calcVars>>
     ELSE /\ format' = "standard"
          /\ IF Has(data, "costs") /\ Has(data, "items") /\ Has(data, "tax")
                /\ ValidStandard(data["costs"], data["items"], data["tax"])
             THEN RouteCalculates(StandardRequest(data["costs"], data["items"], data["tax"]))
             ELSE /\ RouteFails
                  /\ UNCHANGED calcVars
          /\ UNCHANGED <<costs_input, cost_pc>>
  /\ UNCHANGED <<data, endpoint, lines, costs_dict, cost_result, dictVars, wordVars, startVars, roundVars,
                 sharedVars, itemVars>>

\* POST /shopping/total-simple: the body is validated as a
\* ShoppingTotalSimpleRequest, whose parse_inputs enters _parse_costs.
SimpleReceive ==
  /\ route_pc = "start"
  /\ endpoint = "total-simple"
  /\ format' = "simple"
  /\ IF Has(data, "costs_input") /\ Has(data, "items_input")
        /\ Has(data, "tax") /\ TaxInRange(data["tax"])
     THEN /\ costs_input' = data["costs_input"]
          /\ cost_pc' = "start"
          /\ route_pc' = "parse_costs"
          /\ UNCHANGED status_code
     ELSE /\ BodyRejected
          /\ UNCHANGED <<costs_input, cost_pc>>
  /\ UNCHANGED <<data, endpoint, lines, costs_dict, cost_result, dictVars, wordVars, startVars, calcVars,
                 roundVars, sharedVars, itemVars>>

\* parse_inputs after _parse_costs has returned or raised: _parse_items is
\* entered.
RouteCostsParsed ==
  /\ route_pc = "parse_costs"
  /\ cost_pc = "done"
  /\ IF cost_result.kind = "ok"
     THEN /\ items_input' = data["items_input"]
          /\ item_pc' = "start"
          /\ route_pc' = "parse_items"
          /\ UNCHANGED status_code
     ELSE /\ SimpleModelFails
          /\ UNCHANGED <<items_input, item_pc>>
  /\ UNCHANGED <<data, format, endpoint, items, items_result, dictVars, wordVars, startVars, calcVars,
                 roundVars, sharedVars, costVars>>

\* parse_inputs after _parse_items has returned or raised, and
\* to_standard_request.
RouteItemsParsed ==
  /\ route_pc = "parse_items"
  /\ item_pc = "done"
  /\ IF items_result # "ok"
     THEN /\ SimpleModelFails
          /\ UNCHANGED calcVars
     ELSE IF ValidStandard(cost_result.costs, items, data["tax"])
     THEN RouteCalculates(StandardRequest(cost_result.costs, items, data["tax"]))
     ELSE /\ RouteFails
          /\ UNCHANGED calcVars
  /\ UNCHANGED <<data, format, endpoint, dictVars, wordVars, startVars, roundVars, sharedVars, costVars, itemVars>>

\* The result of calculate_total is returned with status 200.
RouteReturns ==
  /\ route_pc = "calculate"
  /\ cpc = "done"
  /\ status_code' = 200
  /\ route_pc' = "done"
  /\ UNCHANGED <<data, format, endpoint, dictVars, wordVars, startVars, calcVars, roundVars, sharedVars,
                 costVars, itemVars>>

NextRoute ==
  \/ RouteDetect
  \/ ParseCostsStart
  \/ ParseCostsLine
  \/ ParseCostsEnd
  \/ RouteCostsParsed
  \/ ParseItemsSplit
  \/ ParseItemsEnd
  \/ RouteItemsParsed
  \/ SubtotalStep
  \/ BuildResponse
  \/ RouteReturns

SpecRoute == InitRoute /\ [][NextRoute]_vars

\* ----------------------------------------------- POST /shopping/total-simple
\* Bodies {costs_input, items_input, tax}, posted to either route.
SimpleBodies ==
  { ("costs_input" :> ci) @@ ("items_input" :> ii) @@ ("tax" :> t) :
      ci \in { <<"a", ":", "1.5", ",", "b", ":", "0.75">>,
               <<"{", "\"a\"", ":", "1.5", "}">>,
               <<"{", "}">>, <<"a">>, <<"b", ":", "-1">> },
      ii \in { <<"a", " ", "b">>, <<"a", ",", "a">>, <<" ">> },
      t \in {0, 10, 150} }

InitSimple ==
  /\ InitDict
  /\ CalcIdle
  /\ WordIdle
  /\ StartIdle
  /\ RoundIdle
  /\ SharedIdle
  /\ CostIdle
  /\ ItemIdle
  /\ data \in SimpleBodies
  /\ route_pc = "start"
  /\ format = "none"
  /\ status_code = 0
  /\ endpoint \in {"total", "total-simple"}

NextSimple == SimpleReceive \/ NextRoute

SpecSimple == InitSimple /\ [][NextSimple]_vars

\* ------------------------------------------------------------ word-concat
\* The words of the examples, and words that are blank or carry whitespace.
hello == <<"h", "e", "l", "l", "o">>
world == <<"w", "o", "r", "l", "d">>
test == <<"t", "e", "s", "t">>
hi == <<"h", "i">>

WordChoices == {hello, world, test, hi, <<"a">>, <<" ", "a", "b", " ">>, <<" ">>, <<>>}

WordLists == UNION {[1..n -> WordChoices] : n \in 0..MaxWords}

\* validate_words_not_empty: an empty list, or an empty or blank word, raises.
WordsRejected(ws) ==
  \/ ws = <<>>
  \/ \E i \in 1..Len(ws) : ws[i] = <<>> \/ Strip(ws[i]) = <<>>

TrimWords_AsGiven(ws) == ws

\* validate_words_not_empty: return [word.strip() for word in v]
TrimWords(ws) == [i \in 1..Len(ws) |-> Strip(ws[i])]

IsValidIndex_Shorter(word_, index_) == 0 <= index_ /\ index_ + 1 < Len(word_)

\* _is_valid_index: 0 <= index < len(word)
IsValidIndex(word_, index_) == 0 <= index_ /\ index_ < Len(word_)

\* word[index]: the one-character string at the 0-based position index
CharAt(word_, index_) == <<word_[index_ + 1]>>

\* "".join(extracted_chars)
RECURSIVE JoinChars(_)
JoinChars(chars) ==
  IF chars = <<>> THEN <<>> ELSE Head(chars) \o JoinChars(Tail(chars))

InitWords ==
  /\ InitDict
  /\ CalcIdle
  /\ RoundIdle /\ SharedIdle /\ CostIdle /\ ItemIdle /\ RouteIdle /\ StartIdle
  /\ words_given \in WordLists
  /\ words = <<>>
  /\ word_pc = "request"
  /\ index = 0
  /\ result_chars = <<>>
  /\ skipped_count = 0
  /\ word_response = NoWordResponse

\* WordConcatRequest(words=v): the validator raises, or the request holds the
\* trimmed words and concatenate_words starts its loop.
WordRequest ==
  /\ word_pc = "request"
  /\ IF WordsRejected(words_given)
     THEN /\ word_pc' = "rejected"
          /\ UNCHANGED words
     ELSE /\ words' = TrimWords(words_given)
          /\ word_pc' = "loop"
  /\ index' = 0
  /\ result_chars' = <<>>
  /\ skipped_count' = 0
  /\ UNCHANGED <<words_given, word_response, dictVars, calcVars, roundVars, sharedVars,
                 costVars, itemVars, routeVars, startVars>>

\* One pass of the loop of _extract_characters_by_index.
ExtractStep ==
  /\ word_pc = "loop"
  /\ index < Len(words)
  /\ LET word_ == words[index + 1]
     IN IF IsValidIndex(word_, index)
        THEN /\ result_chars' = Append(result_chars, CharAt(word_, index))
             /\ UNCHANGED skipped_count
        ELSE /\ skipped_count' = skipped_count + 1
             /\ UNCHANGED result_chars
  /\ index' = index + 1
  /\ UNCHANGED <<words_given, words, word_pc, word_response, dictVars, calcVars, roundVars,
                 sharedVars, costVars, itemVars, routeVars, startVars>>

\* The loop is over: concatenate_words joins the characters and answers.
ConcatenateWords ==
  /\ word_pc = "loop"
  /\ index = Len(words)
  /\ word_response' = [result |-> JoinChars(result_chars),
                       words |-> words,
                       characters_extracted |-> Len(result_chars),
                       characters_skipped |-> skipped_count]
  /\ word_pc' = "done"
  /\ UNCHANGED <<words_given, words, index, result_chars, skipped_count, dictVars, calcVars,
                 roundVars, sharedVars, costVars, itemVars, routeVars, startVars>>

NextWords == WordRequest \/ ExtractStep \/ ConcatenateWords

SpecWords == InitWords /\ [][NextWords]_vars

\* ------------------------------------------------------ wait_for_database
\* What a call of init_db does: it returns, or it raises OperationalError.
DbOutcomes == {"ok", "fail"}

MoreAttempts_Always(n) == TRUE

\* After the n-th call of init_db has failed: is another attempt left?
MoreAttempts(n) == n < max_retries

InitStart ==
  /\ InitDict
  /\ CalcIdle
  /\ RoundIdle /\ SharedIdle /\ CostIdle /\ ItemIdle /\ RouteIdle /\ WordIdle
  /\ max_retries \in 1..MaxRetries
  /\ db_script \in [1..max_retries -> DbOutcomes]
  /\ start_pc = "try"
  /\ attempt = 0
  /\ start_trace = <<>>

\* One attempt: init_db is called; on success wait_for_database returns, on
\* failure it goes to sleep if an attempt is left and raises
\* DatabaseConnectionError otherwise.
TryInitDb ==
  /\ start_pc = "try"
  /\ attempt < max_retries
  /\ attempt' = attempt + 1
  /\ start_trace' = Append(start_trace, "init_db")
  /\ start_pc' = IF db_script[attempt + 1] = "ok" THEN "returned"
                 ELSE IF MoreAttempts(attempt + 1) THEN "sleep" ELSE "raised"
  /\ UNCHANGED <<max_retries, db_script, dictVars, calcVars, roundVars, sharedVars,
                 costVars, itemVars, routeVars, wordVars>>

\* time.sleep(settings.DB_RETRY_DELAY) between two attempts.
SleepBeforeRetry ==
  /\ start_pc = "sleep"
  /\ start_trace' = Append(start_trace, "sleep")
  /\ start_pc' = "try"
  /\ UNCHANGED <<max_retries, db_script, attempt, dictVars, calcVars, roundVars,
                 sharedVars, costVars, itemVars, routeVars, wordVars>>

NextStart == TryInitDb \/ SleepBeforeRetry

SpecStart == InitStart /\ [][NextStart]_vars

Next ==
  \E c \in Calls :
    \/ \E w \in WordInputs, d \in DefInputs : AddCall(c, w, d)
    \/ \E w \in WordInputs : GetCall(c, w)
    \/ AddFind(c)
    \/ AddCreate(c)
    \/ AddCommit(c)
    \/ GetFind(c)

Spec == Init /\ [][Next]_vars

\* ------------------------------------------------------------- properties
\* The key of a word: trimmed and lowercased.
Key(w) == Lower(Strip(w))

IsAdd(c) == op[c] = "add"
IsGet(c) == op[c] = "get"
Done(c) == pc[c] = "done"
Issued(c, name) == \E i \in 1..Len(calls[c]) : calls[c][i] = name
LastCall(c) == calls[c][Len(calls[c])]
Rows(es) == {es[i] : i \in 1..Len(es)}
RowsFor(es, k) == {i \in 1..Len(es) : Key(es[i].word) = k}

\* C1: whatever calls have run and however they interleaved, the store holds
\* at most one entry per trimmed, lowercased word.
C1_OneEntryPerWord ==
  \A i, j \in 1..Len(entries) :
    i # j => Key(entries[i].word) # Key(entries[j].word)

\* Two adds of one word, written in different casing, have both finished: one
\* stored it and the other was refused.
C1_Witness ==
  \E a, b \in Calls :
    /\ a # b /\ IsAdd(a) /\ IsAdd(b) /\ Done(a) /\ Done(b)
    /\ word[a] # word[b] /\ Key(word[a]) = Key(word[b])
    /\ result[a].kind = "ok" /\ result[b].kind = "AlreadyExists"
    /\ Len(entries) = 1

\* Both adds found nothing in their existence check (each went on to create).
Raced(a, b) ==
  /\ a # b /\ IsAdd(a) /\ IsAdd(b) /\ Done(a) /\ Done(b)
  /\ Key(word[a]) = Key(word[b])
  /\ Issued(a, "create") /\ Issued(b, "create")

\* Call a stored its entry and returned it; call b was refused after rollback.
WinsOver(a, b) ==
  /\ result[a].kind = "ok"
  /\ result[a].entry = [word |-> Key(word[a]), definition |-> Strip(definition[a])]
  /\ result[a].entry \in Rows(entries)
  /\ Cardinality(RowsFor(entries, Key(word[a]))) = 1
  /\ result[b].kind = "AlreadyExists"
  /\ LastCall(b) = "rollback"

\* C2: when two concurrent adds of the same normalized word both pass the
\* existence check, no third call stores that word and the store raises no
\* other fault, exactly one of the two stores and returns its entry and the
\* other fails with AlreadyExistsError after a rollback.
C2_RaceResolved ==
  \A a, b \in Calls :
    ( /\ Raced(a, b)
      /\ raised[a] # "OperationalError" /\ raised[b] # "OperationalError"
      /\ \A t \in Calls \ {a, b} :
           ~(IsAdd(t) /\ result[t].kind = "ok" /\ Key(word[t]) = Key(word[a])) )
    => (WinsOver(a, b) \/ WinsOver(b, a))

\* A race whose loser met the constraint violation when it committed.
C2_Witness ==
  \E a, b \in Calls :
    /\ Raced(a, b) /\ WinsOver(a, b)
    /\ calls[b] = <<"find_by_word", "create", "commit", "rollback">>

\* The adds that have succeeded for key k.
Added(k) == {a \in Calls : IsAdd(a) /\ result[a].kind = "ok" /\ Key(word[a]) = k}

\* C3: a get of a non-blank word returns the entry exactly when an earlier
\* add succeeded for the same trimmed, lowercased word, and the entry is that
\* key with the trimmed definition given to that add; otherwise the get
\* fails with NotFoundError.
C3_GetReturnsAdded ==
  [][\A c \in Calls :
       (pc[c] = "get_find" /\ pc'[c] = "done") =>
         IF Added(Key(word[c])) # {}
         THEN /\ result'[c].kind = "ok"
              /\ result'[c].entry.word = Key(word[c])
              /\ \A a \in Added(Key(word[c])) :
                   result'[c].entry.definition = Strip(definition[a])
         ELSE result'[c].kind = "NotFound"]_vars

\* A get, spelled differently from the add before it, has returned its entry.
C3_Witness ==
  \E a, g \in Calls :
    /\ IsAdd(a) /\ result[a].kind = "ok"
    /\ IsGet(g) /\ Done(g) /\ result[g].kind = "ok"
    /\ word[a] # word[g]
    /\ definition[a] # Strip(definition[a])
    /\ result[g].entry = [word |-> Key(word[g]), definition |-> Strip(definition[a])]

\* C4: an add of a word whose key already has an entry fails with
\* AlreadyExistsError, and the call has issued the lookup and nothing else:
\* no create, no commit.
C4_DuplicateRefused ==
  [][\A c \in Calls :
       ( /\ pc[c] = "find" /\ pc'[c] # "find"
         /\ RowsFor(entries, Key(word[c])) # {} )
       => /\ pc'[c] = "done"
          /\ result'[c].kind = "AlreadyExists"
          /\ calls'[c] = <<"find_by_word">>
          /\ entries' = entries]_vars

\* An add spelled with capitals and whitespace was refused by the check.
C4_Witness ==
  \E a, b \in Calls :
    /\ IsAdd(a) /\ result[a].kind = "ok"
    /\ IsAdd(b) /\ Done(b) /\ result[b].kind = "AlreadyExists"
    /\ word[b] # Key(word[b]) /\ Key(word[b]) = Key(word[a])
    /\ calls[b] = <<"find_by_word">>

\* C5: a committed entry stays in the store, unchanged, in every later state,
\* and an entry a get has returned is (still) in the store.
C5_EntriesImmutable ==
  /\ [][\A i \in 1..Len(entries) :
          Len(entries') >= i /\ entries'[i] = entries[i]]_vars
  /\ [](\A c \in Calls :
          (IsGet(c) /\ result[c].kind = "ok") => result[c].entry \in Rows(entries))

\* An add with another definition came after the entry was stored, and the
\* entry still carries the first definition.
C5_Witness ==
  \E a, b \in Calls :
    /\ IsAdd(a) /\ result[a].kind = "ok"
    /\ IsAdd(b) /\ Done(b) /\ result[b].kind = "AlreadyExists"
    /\ Key(word[a]) = Key(word[b])
    /\ Strip(definition[a]) # Strip(definition[b])
    /\ entries = <<[word |-> Key(word[a]), definition |-> Strip(definition[a])]>>

\* C6: add with a blank word or definition, and get with a blank word, fail
\* with ValueError before any repository call is issued.
C6_BlankRejectedFirst ==
  \A c \in Calls :
    ( /\ pc[c] # "idle" /\ layer[c] = "service"
      /\ \/ IsAdd(c) /\ (IsBlank(word[c]) \/ IsBlank(definition[c]))
         \/ IsGet(c) /\ IsBlank(word[c]) )
    => /\ Done(c)
       /\ result[c].kind = "ValueError"
       /\ calls[c] = <<>>
       /\ pending[c] = NoEntry

\* A whitespace-only word was rejected in an add, and one in a get.
C6_Witness ==
  \E a, g \in Calls :
    /\ IsAdd(a) /\ Done(a) /\ word[a] # <<>> /\ IsBlank(word[a])
    /\ result[a].kind = "ValueError"
    /\ IsGet(g) /\ Done(g) /\ word[g] # <<>> /\ IsBlank(word[g])
    /\ result[g].kind = "ValueError"

\* C7: a storage fault during add that is no uniqueness violation reaches the
\* caller as it is: not as a success, AlreadyExistsError or ValueError.
C7_FaultPropagates ==
  \A c \in Calls :
    (IsAdd(c) /\ raised[c] \notin {"none", "IntegrityError", "ValueError"})
    => /\ Done(c)
       /\ result[c].kind = raised[c]
       /\ result[c].kind \notin {"ok", "AlreadyExists", "ValueError"}

\* The commit of an add failed with such a fault.
C7_Witness ==
  \E c \in Calls :
    /\ IsAdd(c) /\ Done(c) /\ raised[c] = "OperationalError"
    /\ LastCall(c) = "commit"

\* C8: POST /dictionary/add answers 201 for a created entry, 409 for a
\* duplicate, and 400 whenever the word is blank or the definition is empty.
C8_PostAddStatus ==
  \A c \in Calls :
    (layer[c] = "http" /\ Done(c)) =>
      /\ result[c].kind = "ok" => HttpStatus(result[c]) = 201
      /\ result[c].kind = "AlreadyExists" => HttpStatus(result[c]) = 409
      /\ (IsBlank(word[c]) \/ definition[c] = <<>>) => HttpStatus(result[c]) = 400

\* The items of the request, trimmed, without the blank ones.
TrimmedItems == [i \in 1..Len(request.items) |-> Strip(request.items[i])]
NonBlankItems == SelectSeq(TrimmedItems, LAMBDA x : x # <<>>)

\* C9: items_found is the ordered subsequence of the trimmed non-blank items
\* that are keys of the cost table (exact match, a price of 0 included),
\* items_not_found is the ordered subsequence of the others, and items_count
\* is the sum of their lengths.
C9_FoundAndNotFound ==
  cpc = "done" =>
    /\ response.items_found =
         SelectSeq(NonBlankItems, LAMBDA x : x \in DOMAIN request.costs)
    /\ response.items_not_found =
         SelectSeq(NonBlankItems, LAMBDA x : x \notin DOMAIN request.costs)
    /\ response.items_count =
         Len(response.items_found) + Len(response.items_not_found)

\* An untrimmed item priced 0 was found, an item differing from a key only in
\* case was not, and a blank item was dropped.
C9_Witness ==
  /\ cpc = "done"
  /\ Len(request.items) = 3
  /\ \E i \in 1..3 : request.items[i] = <<" ">>
  /\ response.items_found = << <<"a">> >>
  /\ request.costs[<<"a">>] = 0
  /\ <<"a">> \notin {request.items[i] : i \in 1..3}
  /\ response.items_not_found = << <<"A">> >>

Count(seq, k) == Cardinality({i \in 1..Len(seq) : seq[i] = k})

RECURSIVE SumByKey(_, _, _)
SumByKey(costs, found, K) ==
  IF K = {} THEN 0
  ELSE LET k == CHOOSE x \in K : TRUE
       IN Count(found, k) * costs[k] + SumByKey(costs, found, K \ {k})

\* C10: the unrounded subtotal is the sum over the keys of the cost table of
\* (occurrences in items_found) x price, and a response with no item found
\* has subtotal, tax_amount and total 0.
C10_SubtotalIsSum ==
  /\ subtotal = SumByKey(request.costs, items_found, DOMAIN request.costs)
  /\ (cpc = "done" /\ response.items_found = <<>>) =>
       /\ response.subtotal = 0
       /\ response.tax_amount = 0
       /\ response.total = 0

\* An item requested twice counted twice, next to an item without a price.
C10_Witness ==
  /\ cpc = "done"
  /\ response.items_found = << <<"a">>, <<"a">> >>
  /\ response.items_not_found # <<>>
  /\ request.costs[<<"a">>] = 75000
  /\ request.tax = 10
  /\ subtotal = 150000

\* y is x rounded half up to a whole number of cents, x being a fraction
\* num / den of the unit of amounts.
IsRound2(y, num, den) ==
  /\ y % 1000 = 0
  /\ den * (y - 500) <= num
  /\ num < den * (y + 500)

Abs(n) == IF n < 0 THEN -n ELSE n

\* C12: the returned total differs from the returned subtotal plus the
\* returned tax_amount by at most one cent.
C12_WithinOneCent ==
  cpc = "done" =>
    Abs(response.total - (response.subtotal + response.tax_amount)) <= 1000

\* A response whose total is one cent off the sum of its two other amounts.
C12_Witness ==
  /\ cpc = "done"
  /\ Abs(response.total - (response.subtotal + response.tax_amount)) = 1000

\* C13: for the table {a: 10.555}, the items [a] and a rate of 0.1 the
\* response is subtotal 10.56, tax_amount 1.06 and total 11.62.
C13_RoundingExample ==
  ( /\ cpc = "done"
    /\ request.costs = (<<"a">> :> 1055500)
    /\ request.items = << <<"a">> >>
    /\ request.tax = 10 )
  => /\ response.subtotal = 1056000
     /\ response.tax_amount = 106000
     /\ response.total = 1162000

\* floor(100 x + 1/2) / 100 for an amount x.
HalfUpCents(x) == ((2 * x + 1000) \div 2000) * 1000

\* C14: rounding a non-negative amount x gives floor(100 x + 1/2) / 100
\* (0.005 gives 0.01, 0.004 gives 0.00, 10.555 gives 10.56, 10.554 gives
\* 10.55, 999.999 gives 1000.00), and rounding the result again changes
\* nothing.
C14_HalfUpIdempotent ==
  /\ rpc \in {"once", "twice"} =>
       /\ rounded = HalfUpCents(value)
       /\ value = 500 => rounded = 1000
       /\ value = 400 => rounded = 0
       /\ value = 1055500 => rounded = 1056000
       /\ value = 1055400 => rounded = 1055000
       /\ value = 99999900 => rounded = 100000000
  /\ rpc = "twice" => rounded_again = rounded

\* 0.005, half-way between two cents, went up to 0.01 and stayed there.
C14_Witness ==
  /\ rpc = "twice"
  /\ value = 500
  /\ rounded = 1000
  /\ rounded_again = 1000

\* C15: two calls of calculate_total with identical inputs return identical
\* results, however they interleave with each other and with other calls on
\* the shared calculator instance, and a call leaves its inputs unchanged.
C15_Pure ==
  /\ [](\A a, b \in Calls :
          (call_pc[a] = "done" /\ call_pc[b] = "done"
             /\ call_request[a] = call_request[b])
          => call_response[a] = call_response[b])
  /\ [][\A c \in Calls :
          call_pc[c] # "idle" => call_request'[c] = call_request[c]]_vars

\* Two calls with the same request that overlapped have both returned, with
\* the response of that request.
C15_Witness ==
  \E a, b \in Calls :
    /\ a # b
    /\ call_pc[a] = "done" /\ call_pc[b] = "done"
    /\ call_overlapped[a] /\ call_overlapped[b]
    /\ call_request[a] = call_request[b]
    /\ call_request[a].costs = (<<"a">> :> 150000) @@ (<<"b">> :> 75000)
    /\ call_response[a].total = 248000
    /\ call_response[b].total = 248000

\* The trimmed text given to the cost parser, and the JSON object it is read
\* as when it is one.
CostText == Strip(costs_input)
IsJsonObject == CostText # <<>> /\ Head(CostText) = "{" /\ JsonLoads(CostText).ok
JsonObject == DictOfPairs(JsonLoads(CostText).pairs)
BadJsonKeys ==
  {k \in DOMAIN JsonObject : JsonObject[k].kind # "number" \/ JsonObject[k].num < 0}

\* C16: when the trimmed text starts with '{' and is a valid JSON object,
\* the parser returns the keys with their values only if every value is a
\* number that is not negative; any other value (string, null, boolean, list,
\* object) or a negative one makes it fail with an error naming the key; and
\* the delimited format is never tried.
C16_JsonValuesChecked ==
  IsJsonObject =>
    /\ cost_pc # "lines"
    /\ cost_pc = "done" =>
         IF BadJsonKeys = {}
         THEN cost_result = Parsed([k \in DOMAIN JsonObject |-> JsonObject[k].num])
         ELSE cost_result.kind # "ok" /\ cost_result.key \in BadJsonKeys

\* The candidate lines of the text, trimmed, and for each the name before its
\* first colon and the price after it.
TrimmedLines ==
  LET ls == SplitOn(CostText, LineSeps)
  IN [i \in 1..Len(ls) |-> Strip(ls[i])]
FirstColon(line) == FirstIn(line, {":"}, 1)
NameOf(line) == Strip(SubSeq(line, 1, FirstColon(line) - 1))
PriceOf(line) == Strip(SubSeq(line, FirstColon(line) + 1, Len(line)))
IsPair(line) == FirstColon(line) # 0 /\ NameOf(line) # <<>> /\ PriceOf(line) # <<>>
PairLines == {i \in 1..Len(TrimmedLines) : IsPair(TrimmedLines[i])}
LastNaming(k) ==
  CHOOSE i \in PairLines :
    /\ NameOf(TrimmedLines[i]) = k
    /\ \A j \in PairLines : NameOf(TrimmedLines[j]) = k => j <= i

\* C17: for a text not handled as JSON, the mapping returned has, for each
\* non-empty trimmed line between commas, semicolons and newlines, the text
\* before the first colon as the name and the text after it as the price,
\* each name carrying the price of the last line that names it.
C17_FirstColonLastWins ==
  (cost_pc = "done" /\ ~IsJsonObject /\ cost_result.kind = "ok") =>
    /\ DOMAIN cost_result.costs = {NameOf(TrimmedLines[i]) : i \in PairLines}
    /\ \A k \in DOMAIN cost_result.costs :
         /\ IsFloat(PriceOf(TrimmedLines[LastNaming(k)]))
         /\ cost_result.costs[k] = FloatOf(PriceOf(TrimmedLines[LastNaming(k)]))

\* C18: the parser fails whenever it found no valid name:price pair, so every
\* mapping it returns is non-empty.
C18_NeverEmpty ==
  (cost_pc = "done" /\ cost_result.kind = "ok") => DOMAIN cost_result.costs # {}

\* The trimmed text given to the item parser.
ItemText == Strip(items_input)

\* The pieces of s between the elements in D, read from the right.
RECURSIVE Pieces(_, _)
Pieces(s, D) ==
  IF \A i \in 1..Len(s) : s[i] \notin D THEN <<s>>
  ELSE LET i == CHOOSE j \in 1..Len(s) :
                  s[j] \in D /\ \A k \in (j + 1)..Len(s) : s[k] \notin D
       IN Append(Pieces(SubSeq(s, 1, i - 1), D), SubSeq(s, i + 1, Len(s)))

\* The pieces trimmed, without the empty ones.
Tokens(s, D) ==
  LET ps == Pieces(s, D)
  IN SelectSeq([i \in 1..Len(ps) |-> Strip(ps[i])], LAMBDA x : x # <<>>)

\* C19: the delimiter is chosen by the first rule that applies to the trimmed
\* text: commas if it holds a comma; otherwise newlines if it holds a newline;
\* otherwise whitespace if it holds whitespace and splits into more than one
\* token; otherwise the whole trimmed text is the single item.
C19_DelimiterPrecedence ==
  (item_pc = "done" /\ items_result = "ok") =>
    items =
      IF \E i \in 1..Len(ItemText) : ItemText[i] = ","
      THEN Tokens(ItemText, {","})
      ELSE IF \E i \in 1..Len(ItemText) : ItemText[i] = "\n"
      THEN Tokens(ItemText, {"\n"})
      ELSE IF /\ \E i \in 1..Len(ItemText) : ItemText[i] \in Whitespace
              /\ Len(Tokens(ItemText, Whitespace)) > 1
      THEN Tokens(ItemText, Whitespace)
      ELSE <<ItemText>>

\* The keys of the posted object.
Keys == DOMAIN data
SimpleKeyPresent == "costs_input" \in Keys \/ "items_input" \in Keys

\* A cost table, an item list and a tax that make a valid structured request.
Acceptable(c, i, t) ==
  /\ c # EmptyDict
  /\ \A k \in DOMAIN c : ~(c[k] < 0)
  /\ \E n \in 1..Len(i) : ~IsBlank(i[n])
  /\ t \in 0..100

\* The body parses and validates in the format chosen for it.
ValidInFormat ==
  IF SimpleKeyPresent
  THEN /\ {"costs_input", "items_input", "tax"} \subseteq Keys
       /\ cost_result.kind = "ok"
       /\ items_result = "ok"
       /\ Acceptable(cost_result.costs, items, data["tax"])
  ELSE /\ {"costs", "items", "tax"} \subseteq Keys
       /\ Acceptable(data["costs"], data["items"], data["tax"])

\* C20: the body is handled as the simple text format exactly when it holds
\* the key costs_input or the key items_input, whatever else it holds, and as
\* the structured format otherwise (the text parsers are then never entered);
\* a body that fails to parse or validate in the chosen format is answered
\* with 400.
C20_FormatDetection ==
  /\ route_pc # "start" => (format = "simple" <=> SimpleKeyPresent)
  /\ format = "standard" => (cost_pc = "idle" /\ item_pc = "idle")
  /\ (route_pc = "done" /\ ~ValidInFormat) => status_code = 400

\* A body holding items_input next to a valid costs, items and tax was
\* handled as the simple format and refused.
C20_Witness ==
  /\ route_pc = "done"
  /\ Keys = {"costs", "items", "tax", "items_input"}
  /\ Acceptable(data["costs"], data["items"], data["tax"])
  /\ format = "simple"
  /\ status_code = 400

\* C21: for every body {costs_input, items_input, tax} both routes give the
\* same outcome, the one of the structured request built from the parsed cost
\* table and item list: status 200 with the response of that request when
\* parsing and validation succeed, status 400 when they fail.
C21_SimpleRoutesAgree ==
  (route_pc = "done" /\ Keys = {"costs_input", "items_input", "tax"}) =>
    IF ValidInFormat
    THEN /\ status_code = 200
         /\ request = [costs |-> cost_result.costs, items |-> items, tax |-> data["tax"]]
         /\ cpc = "done"
    ELSE status_code = 400

\* The body is a structured request: costs, items and tax, no text key.
IsStructured == {"costs", "items", "tax"} \subseteq Keys /\ ~SimpleKeyPresent

\* The posted items, trimmed, without the blank ones.
PostedItems ==
  SelectSeq([n \in 1..Len(data["items"]) |-> Strip(data["items"][n])],
            LAMBDA x : x # <<>>)

\* C22: a structured request is answered with 400, and nothing is computed,
\* when the tax rate is outside [0,1], when a cost is negative, or when the
\* item list is empty or holds only blank strings; tax rates 0 and 1 and a
\* cost of 0 are accepted, and the accepted items are trimmed, the blank ones
\* removed.
C22_StructuredValidation ==
  (route_pc = "done" /\ IsStructured) =>
    LET c == data["costs"]
        t == data["tax"]
    IN /\ (t < 0 \/ t > 100 \/ (\E k \in DOMAIN c : c[k] < 0) \/ PostedItems = <<>>)
            => (status_code = 400 /\ cpc = "idle" /\ response = NoResponse)
       /\ (t \in 0..100 /\ c # EmptyDict /\ (\A k \in DOMAIN c : c[k] >= 0)
             /\ PostedItems # <<>>)
            => (status_code = 200 /\ request.items = PostedItems /\ cpc = "done")

\* A tax rate of 1, a cost of 0 and items with a blank one and an untrimmed
\* one were accepted, the item trimmed.
C22_Witness ==
  /\ route_pc = "done"
  /\ IsStructured
  /\ data["tax"] = 100
  /\ data["costs"] = (<<"a">> :> 0)
  /\ data["items"] = << <<" ">>, <<" ", "a">> >>
  /\ status_code = 200
  /\ request.items = << <<"a">> >>

\* ---------------------------------------------------- word-concat properties
\* The 0-based positions of the words long enough to give a character.
Extracting(ws) == {i \in 0..(Len(ws) - 1) : Len(ws[i + 1]) > i}

RECURSIVE Diagonal(_, _)
Diagonal(ws, i) ==
  IF i >= Len(ws) THEN <<>>
  ELSE (IF Len(ws[i + 1]) > i THEN <<ws[i + 1][i + 1]>> ELSE <<>>) \o Diagonal(ws, i + 1)

C24_SkipExample ==
  words_given = <<hello, hi, test>> =>
    /\ (word_pc = "loop" /\ index = 1) => (result_chars = << <<"h">> >> /\ skipped_count = 0)
    /\ (word_pc = "loop" /\ index = 2) => (result_chars = << <<"h">> >> /\ skipped_count = 1)
    /\ word_pc = "done" =>
         /\ word_response.result = <<"h", "s">>
         /\ word_response.characters_extracted = 2
         /\ word_response.characters_skipped = 1

\* C30: the response's counts add up to the number of input words, the result
\* is as long as the count of extracted characters, and the words field is
\* the input list, each word trimmed, in the same order.
C30_ResponseCounts ==
  word_pc = "done" =>
    /\ word_response.characters_extracted + word_response.characters_skipped
         = Len(words_given)
    /\ Len(word_response.result) = word_response.characters_extracted
    /\ word_response.words = [i \in 1..Len(words_given) |-> Strip(words_given[i])]

C30_Witness ==
  /\ word_pc = "done"
  /\ words_given = <<hi, <<" ", "a", "b", " ">>, <<"a">>>>
  /\ word_response.words = <<hi, <<"a", "b">>, <<"a">>>>
  /\ word_response.result = <<"h", "b">>
  /\ word_response.characters_extracted = 2
  /\ word_response.characters_skipped = 1

\* --------------------------------------------- wait_for_database properties
Sleeps == Cardinality({i \in 1..Len(start_trace) : start_trace[i] = "sleep"})
InitDbCalls == Cardinality({i \in 1..Len(start_trace) : start_trace[i] = "init_db"})
Terminated == start_pc \in {"returned", "raised"}

\* C25: wait_for_database ends after at most DB_MAX_RETRIES calls of init_db:
\* it returns right after the first successful call, it raises after exactly
\* DB_MAX_RETRIES failures in a row, and it sleeps once between two
\* consecutive attempts and never after the last one.
C25_BoundedRetries ==
  /\ InitDbCalls = attempt
  /\ attempt <= max_retries
  /\ Len(start_trace) <= 2 * max_retries - 1
  /\ ~Terminated => ENABLED NextStart
  /\ \A i \in 1..Len(start_trace) : (start_trace[i] = "init_db") <=> (i % 2 = 1)
  /\ start_pc = "returned" =>
       /\ db_script[attempt] = "ok"
       /\ \A i \in 1..(attempt - 1) : db_script[i] = "fail"
  /\ start_pc = "raised" =>
       /\ attempt = max_retries
       /\ \A i \in 1..max_retries : db_script[i] = "fail"
  /\ Terminated =>
       /\ Sleeps = attempt - 1
       /\ start_trace[Len(start_trace)] = "init_db"

C25_Witness ==
  /\ start_pc = "raised"
  /\ max_retries = 3
  /\ attempt = 3
  /\ Sleeps = 2

\* ------------------------------------------- cost parser: prices (C26, C27)
\* The trimmed lines made of a name that is not empty, a colon and a price
\* part that is no number (or is empty) or is negative.
BadPriceLines ==
  {i \in 1..Len(TrimmedLines) :
     LET l == TrimmedLines[i]
     IN /\ FirstColon(l) # 0
        /\ NameOf(l) # <<>>
        /\ (~IsFloat(PriceOf(l)) \/ FloatOf(PriceOf(l)) < 0)}

\* C26: in the delimited format a line with a name, a colon and a price part
\* that is no number (an empty one included) or is negative makes the whole
\* parse fail; such a line is never skipped.
C26_BadPriceFails ==
  (cost_pc = "done" /\ ~IsJsonObject /\ BadPriceLines # {}) => cost_result.kind # "ok"

\* C27: every price in a mapping the parser returns, in the JSON format and
\* in the delimited format, is a finite number that is not negative.
C27_FinitePrices ==
  (cost_pc = "done" /\ cost_result.kind = "ok") =>
    \A k \in DOMAIN cost_result.costs :
      /\ cost_result.costs[k] >= 0
      /\ cost_result.costs[k] \notin {Infinity, NaN}

\* ------------------------------------------------- item parser: the result
\* The characters the parser may split on.
ItemDelimiters == {","} \cup Whitespace

\* C28: whenever the item parser returns, the list is not empty, every item
\* is non-empty without leading or trailing whitespace, and the items are, in
\* order and with their duplicates, the tokens of the text between its
\* delimiters; a text of delimiters and whitespace only fails with an error.
C28_ItemsWellFormed ==
  item_pc = "done" =>
    /\ items_result # "none"
    /\ items_result = "ok" =>
         /\ items # <<>>
         /\ \A i \in 1..Len(items) :
              /\ items[i] # <<>>
              /\ items[i][1] \notin Whitespace
              /\ items[i][Len(items[i])] \notin Whitespace
         /\ \E D \in {{","}, {"\n"}, Whitespace, {}} : items = Tokens(ItemText, D)
    /\ (\A i \in 1..Len(items_input) : items_input[i] \in ItemDelimiters) =>
         items_result # "ok"

C28_Witness ==
  /\ item_pc = "done"
  /\ items_input = <<"a", ",", ",", "a">>
  /\ items_result = "ok"
  /\ items = << <<"a">>, <<"a">> >>

\* ------------------------------------------ dictionary: the committed entries
\* Call c ends in this step.
Ends(c) == pc[c] # "done" /\ pc'[c] = "done"

\* C29: get, and every add that ends in an error (validation, the existence
\* check, a constraint violation followed by rollback), leave the committed
\* entries as they were; only an add that succeeds changes them, and it adds
\* exactly one entry.
C29_OnlySuccessfulAddWrites ==
  [][ /\ \A c \in Calls :
           (Ends(c) /\ (op'[c] = "get" \/ result'[c].kind # "ok")) => entries' = entries
      /\ \A c \in Calls :
           (Ends(c) /\ op'[c] = "add" /\ result'[c].kind = "ok") =>
             /\ Len(entries') = Len(entries) + 1
             /\ SubSeq(entries', 1, Len(entries)) = entries
             /\ entries'[Len(entries')] = result'[c].entry
      /\ entries' # entries =>
           \E c \in Calls : Ends(c) /\ op'[c] = "add" /\ result'[c].kind = "ok" ]_vars

C29_Witness ==
  \E c \in Calls, b \in Calls :
    /\ op[c] = "add" /\ Done(c) /\ result[c].kind = "ok"
    /\ op[b] = "add" /\ Done(b) /\ raised[b] = "IntegrityError"
    /\ result[b].kind = "AlreadyExists"
    /\ LastCall(b) = "rollback"
    /\ entries = <<result[c].entry>>

====
